---- MODULE Spec2Model ----
(***************************************************************************)
(* Model of the two Streamlit front ends of the repository, app.py (with   *)
(* the yt-dlp fallback) and pytubefix.py (without it): the submit handler, *)
(* the download/assemble pipeline, the scratch directory scopes, the       *)
(* session store and what the page shows after each script run.            *)
(*                                                                         *)
(* Text is a sequence of characters.  A character is a one-character       *)
(* string; a run of fixed program text that cannot contain the characters  *)
(* the code looks for is written as one element of the sequence.           *)
(***************************************************************************)
EXTENDS Naturals, Sequences, FiniteSets, TLC

VARIABLES variant, pc, url, enable_fallback, cookies_file, rerun_requested,
          session_state, title, base, tmp, disk, e,
          shown_success, shown_error, shown_download,
          run_result, failed_stage, primary_fault, picked, calls, rc,
          mp4_writer, made, store0

vars == <<variant, pc, url, enable_fallback, cookies_file, rerun_requested,
          session_state, title, base, tmp, disk, e,
          shown_success, shown_error, shown_download,
          run_result, failed_stage, primary_fault, picked, calls, rc,
          mp4_writer, made, store0>>

-----------------------------------------------------------------------------
(* Characters and str methods used by the code *)

\* Python's None, as a value that is no text of the model
None == <<"<None>">>

\* characters for which str.isalnum() is true and that are ASCII
AsciiAlnum == {"a", "b", "Z", "v", "i", "d", "e", "o", "0", "3", "4"}

\* a character for which str.isalnum() is true and that is not ASCII (e acute)
UnicodeAlnum == {"U+00E9"}

\* characters str.strip() removes
Whitespace == {" ", "TAB"}

\* the literal " ._-()" of sanitize
SafePunct == {" ", ".", "_", "-", "(", ")"}

isalnum(c) == c \in AsciiAlnum \cup UnicodeAlnum

RECURSIVE lstrip(_)
lstrip(s) == IF s # <<>> /\ Head(s) \in Whitespace THEN lstrip(Tail(s)) ELSE s

RECURSIVE rstrip(_)
rstrip(s) ==
  IF s # <<>> /\ s[Len(s)] \in Whitespace
    THEN rstrip(SubSeq(s, 1, Len(s) - 1))
    ELSE s

strip(s) == rstrip(lstrip(s))

VIDEO == <<"v", "i", "d", "e", "o">>

\* name or "video": None and "" are false
OrVideo(name) == IF name = None \/ name = <<>> THEN VIDEO ELSE name

sanitize(name) ==
  LET n == strip(OrVideo(name))
  IN  [i \in 1..Len(n) |->
         IF isalnum(n[i]) \/ n[i] \in SafePunct THEN n[i] ELSE "_"]

\* "403" in msg
Contains403(msg) ==
  \E i \in 1..Len(msg) :
     i + 2 <= Len(msg) /\ msg[i] = "4" /\ msg[i+1] = "0" /\ msg[i+2] = "3"

\* os.path.join(dir, name)
join(dir, name) == dir \o <<"/">> \o name

\* os.path.basename(path): what follows the last separator
RECURSIVE basename(_)
basename(p) ==
  IF \E i \in 1..Len(p) : p[i] = "/"
    THEN basename(Tail(p))
    ELSE p

-----------------------------------------------------------------------------
(* Inputs of the model *)

\* which of the two scripts serves the page
Variants == {"app", "pytubefix"}

\* contents of the URL field; a non-blank one is written as its video id
Urls == {<<>>, <<" ">>, <<"a", "b">>, <<"4", "0", "3">>}

\* titles the extraction library may report
Titles == {<<>>, <<" ">>, <<"a", "/">>, <<"4", "0", "3">>}

\* directories tempfile.TemporaryDirectory may create: a fixed prefix and
\* random characters drawn from a-z, 0-9 and _
TmpNames == {<<"/tmp/tmp", "a", "b", "_">>, <<"/tmp/tmp", "4", "0", "3">>}

NoTmp == <<>>

-----------------------------------------------------------------------------
(* Exceptions and their str() *)

NoExc == [type |-> "none", code |-> 0, msg |-> <<>>, stage |-> "none"]

Exc(t, c, m, st) == [type |-> t, code |-> c, msg |-> m, stage |-> st]

\* urllib.error.HTTPError with code 403
HTTP403 == Exc("HTTPError", 403, <<"HTTP Error ", "4", "0", "3", ": Forbidden">>, "http403")

\* pytubefix.exceptions.VideoUnavailable: its text names the video id
VideoUnavailable(u) == Exc("VideoUnavailable", 0, strip(u) \o <<" is unavailable">>, "unavailable")

\* any other fault of the extraction library
Unexpected == Exc("Exception", 0, <<"unexpected fault">>, "unexpected")

\* str() of subprocess.CalledProcessError: the argument vector is part of it
CalledProcessError(cmd, st) ==
  Exc("CalledProcessError", 0,
      <<"Command '">> \o cmd \o <<"' returned non-zero exit status 1.">>, st)

cmd_x264(v, a, out) ==
  <<"ffmpeg -y -i ">> \o v \o <<" -i ">> \o a
    \o <<" -c:v libx264 -preset veryfast -crf 18 -c:a aac -b:a 192k ">> \o out

cmd_mp3(mp4, mp3) ==
  <<"ffmpeg -y -i ">> \o mp4 \o <<" -vn -c:a libmp3lame -q:a 2 ">> \o mp3

cmd_wav(mp4, wav) ==
  <<"ffmpeg -y -i ">> \o mp4 \o <<" -vn -acodec pcm_s16le -ar 44100 -ac 2 ">> \o wav

v_path == join(tmp, base \o <<"_v">>)
a_path == join(tmp, base \o <<"_a">>)
mp4_path == join(tmp, base \o <<".mp4">>)
mp3_path == join(tmp, base \o <<".mp3">>)
wav_path == join(tmp, base \o <<".wav">>)

\* messages of the page
MsgNoFfmpeg == <<"ffmpeg introuvable. Installez-le et relancez.">>
MsgNoUrl == <<"Veuillez entrer une URL.">>
MsgNoStreamApp == <<"Flux video/audio introuvables.">>
MsgNoStreamPytubefix == <<"Impossible de trouver des flux video/audio adaptatifs.">>
MsgUnavailablePytubefix == <<"Video indisponible. Verifiez l'URL et les restrictions.">>

-----------------------------------------------------------------------------
(* Scratch scopes and the session store *)

IsPrefix(t, p) == Len(t) <= Len(p) /\ SubSeq(p, 1, Len(t)) = t

\* a scratch directory that is made and never removed
NoCleanup(d, t) == d

\* what leaving a tempfile.TemporaryDirectory scope does to the disk
Cleanup(d, t) == IF t = NoTmp THEN d ELSE {p \in d : ~IsPrefix(t, p)}

\* entries written under their full scratch paths
ZipEntriesFullPath(paths) == paths

\* the archive: its entries, in the order written, each under its arcname
ZipEntries(paths) == [i \in 1..Len(paths) |-> basename(paths[i])]

\* session_state after the two assignments that end the packaging step
StoreZip(ss, paths, b) ==
  ("zip_bytes" :> ZipEntries(paths)) @@ ("zip_name" :> b \o <<".zip">>) @@ ss

HasZip(ss) == "zip_bytes" \in DOMAIN ss /\ "zip_name" \in DOMAIN ss

\* the check of the streams with `and` in place of `or`
BothMissing(v, a) == ~v /\ ~a

\* not v or not a
StreamMissing(v, a) == ~v \/ ~a

\* is_403
Is403(ex) == Contains403(ex.msg) \/ (ex.type = "HTTPError" /\ ex.code = 403)

\* the fallback taken on any 403, whatever the fallback box says
TakeFallbackAlways(ef, ex) == Is403(ex)

\* enable_fallback and is_403
TakeFallback(ef, ex) == ef /\ Is403(ex)

\* st.session_state of a new session: no key
EmptyStore == [k \in {} |-> <<>>]

-----------------------------------------------------------------------------
(* What the model records of the current script run *)

NoCalls == [pick |-> 0, dl |-> 0, copy |-> 0, x264 |-> 0, mp3 |-> 0,
            wav |-> 0, zip |-> 0, ytdlp |-> 0]

NoRc == [title |-> "none", dl_v |-> "none", dl_a |-> "none", copy |-> "none",
         x264 |-> "none", mp3 |-> "none", wav |-> "none", ytdlp |-> "none"]

NoPick == <<"none">>

\* a new session, before the first script run
NewSession ==
  /\ url = <<>>
  /\ enable_fallback = FALSE
  /\ cookies_file = FALSE
  /\ rerun_requested = FALSE
  /\ session_state = EmptyStore
  /\ base = <<>>
  /\ tmp = NoTmp
  /\ disk = {}
  /\ e = NoExc
  /\ shown_success = FALSE
  /\ shown_error = <<>>
  /\ shown_download = FALSE
  /\ run_result = "none"
  /\ failed_stage = "none"
  /\ primary_fault = "none"
  /\ picked = NoPick
  /\ calls = NoCalls
  /\ rc = NoRc
  /\ mp4_writer = "none"
  /\ made = {}
  /\ store0 = EmptyStore

Init ==
  /\ variant \in Variants
  /\ pc = "idle"
  /\ title = None
  /\ NewSession

\* the widgets of the page: pytubefix.py has neither the fallback box nor
\* the cookies upload
FallbackChoices == IF variant = "app" THEN BOOLEAN ELSE {FALSE}

\* A script run that the submit button started, up to the first stage:
\* the two checks of the handler, then the try block.
StartRun(u, ef, ck, ff) ==
  /\ url' = u
  /\ enable_fallback' = ef
  /\ cookies_file' = ck
  /\ rerun_requested' = FALSE
  /\ shown_success' = FALSE
  /\ shown_download' = FALSE
  /\ e' = NoExc
  /\ tmp' = NoTmp
  /\ title' = None
  /\ base' = <<>>
  /\ failed_stage' = "none"
  /\ primary_fault' = "none"
  /\ picked' = NoPick
  /\ calls' = NoCalls
  /\ rc' = NoRc
  /\ mp4_writer' = "none"
  /\ made' = {}
  /\ store0' = session_state
  /\ IF ~ff
       THEN /\ shown_error' = MsgNoFfmpeg
            /\ run_result' = "rejected"
            /\ pc' = "render"
       ELSE IF strip(u) = <<>>
       THEN /\ shown_error' = MsgNoUrl
            /\ run_result' = "rejected"
            /\ pc' = "render"
       ELSE /\ shown_error' = <<>>
            /\ run_result' = "running"
            /\ pc' = "analyse"

\* The user sets the widgets and clicks the submit button on an idle page.
Submit ==
  /\ pc = "idle"
  /\ \E u \in Urls, ef \in FallbackChoices, ck \in FallbackChoices, ff \in BOOLEAN :
        StartRun(u, ef, ck, ff)
  /\ UNCHANGED <<variant, session_state, disk>>

\* Any other interaction with an idle page (editing a field, using the
\* download button): the script runs with the submit button not pressed.
Rerun ==
  /\ pc = "idle"
  /\ shown_success' = FALSE
  /\ shown_error' = <<>>
  /\ shown_download' = HasZip(session_state)
  /\ run_result' = "none"
  /\ UNCHANGED <<variant, pc, url, enable_fallback, cookies_file, rerun_requested,
                 session_state, title, base, tmp, disk, e, failed_stage,
                 primary_fault, picked, calls, rc, mp4_writer, made, store0>>

\* The user clicks the submit button while the script is running.
ClickDuringRun ==
  /\ pc # "idle"
  /\ ~rerun_requested
  /\ rerun_requested' = TRUE
  /\ UNCHANGED <<variant, pc, url, enable_fallback, cookies_file,
                 session_state, title, base, tmp, disk, e,
                 shown_success, shown_error, shown_download,
                 run_result, failed_stage, primary_fault, picked, calls, rc,
                 mp4_writer, made, store0>>

\* An exception leaves the primary scratch scope (if entered) and reaches
\* the except clause of the handler.
RaiseFrom(ex, d, t) ==
  /\ e' = ex
  /\ primary_fault' = ex.stage
  /\ disk' = Cleanup(d, t)
  /\ tmp' = NoTmp
  /\ pc' = "except"

Raise(ex) == RaiseFrom(ex, disk, tmp)

\* An exception leaves the fallback's scratch scope and reaches its except clause.
RaiseInFallback(ex) ==
  /\ e' = ex
  /\ disk' = Cleanup(disk, tmp)
  /\ tmp' = NoTmp
  /\ pc' = "fb_except"

\* YouTube(url) and yt.title, then sanitize
Analyse ==
  /\ pc = "analyse"
  /\ ~rerun_requested
  /\ \/ /\ \E t \in Titles :
             /\ title' = t
             /\ base' = sanitize(t)
        /\ rc' = [rc EXCEPT !.title = "ok"]
        /\ pc' = "streams"
        /\ UNCHANGED <<e, primary_fault, disk, tmp>>
     \/ /\ \E ex \in {VideoUnavailable(url), HTTP403, Unexpected} : Raise(ex)
        /\ rc' = [rc EXCEPT !.title = "fail"]
        /\ UNCHANGED <<title, base>>
  /\ UNCHANGED <<variant, url, enable_fallback, cookies_file, rerun_requested,
                 session_state, shown_success, shown_error, shown_download,
                 run_result, failed_stage, picked, calls, mp4_writer, made, store0>>

\* Entering the scratch scope, pick_streams and the check of its result.
\* Listing the streams may itself fail.  When a stream is missing app.py
\* raises; pytubefix.py shows the error and stops the script, so the
\* download button below the handler is not reached in that run.
Streams ==
  /\ pc = "streams"
  /\ ~rerun_requested
  /\ \E t \in TmpNames :
        /\ made' = made \cup {t}
        /\ \/ /\ \E ex \in {HTTP403, Unexpected} : RaiseFrom(ex, disk \cup {t}, t)
              /\ UNCHANGED <<picked, shown_error, run_result, failed_stage>>
           \/ \E v \in BOOLEAN, a \in BOOLEAN :
                /\ picked' = <<v, a>>
                /\ IF StreamMissing(v, a)
                     THEN IF variant = "app"
                            THEN /\ RaiseFrom(Exc("RuntimeError", 0, MsgNoStreamApp, "nostream"),
                                              disk \cup {t}, t)
                                 /\ UNCHANGED <<shown_error, run_result, failed_stage>>
                            ELSE /\ shown_error' = MsgNoStreamPytubefix
                                 /\ run_result' = "failed"
                                 /\ failed_stage' = "nostream"
                                 /\ primary_fault' = "nostream"
                                 /\ disk' = Cleanup(disk \cup {t}, t)
                                 /\ tmp' = NoTmp
                                 /\ pc' = "idle"
                                 /\ UNCHANGED e
                     ELSE /\ tmp' = t
                          /\ disk' = disk \cup {t}
                          /\ pc' = "dl_v"
                          /\ UNCHANGED <<e, primary_fault, shown_error, run_result,
                                         failed_stage>>
  /\ calls' = [calls EXCEPT !.pick = @ + 1]
  /\ UNCHANGED <<variant, url, enable_fallback, cookies_file, rerun_requested,
                 session_state, title, base, shown_success, shown_download,
                 rc, mp4_writer, store0>>

\* v.download(output_path=tmp, filename=base + "_v")
DownloadV ==
  /\ pc = "dl_v"
  /\ calls' = [calls EXCEPT !.dl = @ + 1]
  /\ \/ /\ disk' = disk \cup {v_path}
        /\ made' = made \cup {v_path}
        /\ rc' = [rc EXCEPT !.dl_v = "ok"]
        /\ pc' = "dl_a"
        /\ UNCHANGED <<e, primary_fault, tmp>>
     \/ /\ \E ex \in {HTTP403, Unexpected} : Raise(ex)
        /\ rc' = [rc EXCEPT !.dl_v = "fail"]
        /\ UNCHANGED made
  /\ UNCHANGED <<variant, url, enable_fallback, cookies_file, rerun_requested,
                 session_state, title, base, shown_success, shown_error,
                 shown_download, run_result, failed_stage, picked, mp4_writer, store0>>

\* a.download(output_path=tmp, filename=base + "_a")
DownloadA ==
  /\ pc = "dl_a"
  /\ calls' = [calls EXCEPT !.dl = @ + 1]
  /\ \/ /\ disk' = disk \cup {a_path}
        /\ made' = made \cup {a_path}
        /\ rc' = [rc EXCEPT !.dl_a = "ok"]
        /\ pc' = "merge"
        /\ UNCHANGED <<e, primary_fault, tmp>>
     \/ /\ \E ex \in {HTTP403, Unexpected} : Raise(ex)
        /\ rc' = [rc EXCEPT !.dl_a = "fail"]
        /\ UNCHANGED made
  /\ UNCHANGED <<variant, url, enable_fallback, cookies_file, rerun_requested,
                 session_state, title, base, shown_success, shown_error,
                 shown_download, run_result, failed_stage, picked, mp4_writer, store0>>

\* merge_to_mp4, first invocation: the stream-copy mux.  A failed ffmpeg
\* may leave a partial output file.
MergeCopy ==
  /\ pc = "merge"
  /\ ~rerun_requested
  /\ calls' = [calls EXCEPT !.copy = @ + 1]
  /\ \/ /\ rc' = [rc EXCEPT !.copy = "ok"]
        /\ disk' = disk \cup {mp4_path}
        /\ made' = made \cup {mp4_path}
        /\ mp4_writer' = "copy"
        /\ pc' = "mp3"
     \/ /\ rc' = [rc EXCEPT !.copy = "fail"]
        /\ \E partial \in BOOLEAN :
             /\ disk' = IF partial THEN disk \cup {mp4_path} ELSE disk
             /\ made' = IF partial THEN made \cup {mp4_path} ELSE made
        /\ pc' = "merge_x264"
        /\ UNCHANGED mp4_writer
  /\ UNCHANGED <<variant, url, enable_fallback, cookies_file, rerun_requested,
                 session_state, title, base, tmp, e, shown_success, shown_error,
                 shown_download, run_result, failed_stage, primary_fault, picked,
                 store0>>

\* merge_to_mp4, second invocation: the re-encode mux, with check=True
MergeX264 ==
  /\ pc = "merge_x264"
  /\ calls' = [calls EXCEPT !.x264 = @ + 1]
  /\ \/ /\ rc' = [rc EXCEPT !.x264 = "ok"]
        /\ disk' = disk \cup {mp4_path}
        /\ made' = made \cup {mp4_path}
        /\ mp4_writer' = "x264"
        /\ pc' = "mp3"
        /\ UNCHANGED <<e, primary_fault, tmp>>
     \/ /\ rc' = [rc EXCEPT !.x264 = "fail"]
        /\ Raise(CalledProcessError(cmd_x264(v_path, a_path, mp4_path), "mux"))
        /\ UNCHANGED <<made, mp4_writer>>
  /\ UNCHANGED <<variant, url, enable_fallback, cookies_file, rerun_requested,
                 session_state, title, base, shown_success, shown_error,
                 shown_download, run_result, failed_stage, picked, store0>>

\* make_mp3 (check=True), in the primary path and in the fallback path
Mp3Step(here, next, fallback) ==
  /\ pc = here
  /\ ~rerun_requested
  /\ calls' = [calls EXCEPT !.mp3 = @ + 1]
  /\ \/ /\ disk' = disk \cup {mp3_path}
        /\ made' = made \cup {mp3_path}
        /\ rc' = IF fallback THEN rc ELSE [rc EXCEPT !.mp3 = "ok"]
        /\ pc' = next
        /\ UNCHANGED <<e, primary_fault, tmp>>
     \/ /\ rc' = IF fallback THEN rc ELSE [rc EXCEPT !.mp3 = "fail"]
        /\ IF fallback
             THEN /\ RaiseInFallback(CalledProcessError(cmd_mp3(mp4_path, mp3_path), "fb_deriv"))
                  /\ UNCHANGED primary_fault
             ELSE Raise(CalledProcessError(cmd_mp3(mp4_path, mp3_path), "deriv"))
        /\ UNCHANGED made
  /\ UNCHANGED <<variant, url, enable_fallback, cookies_file, rerun_requested,
                 session_state, title, base, shown_success, shown_error,
                 shown_download, run_result, failed_stage, picked, mp4_writer, store0>>

\* make_wav (check=True), in the primary path and in the fallback path
WavStep(here, next, fallback) ==
  /\ pc = here
  /\ ~rerun_requested
  /\ calls' = [calls EXCEPT !.wav = @ + 1]
  /\ \/ /\ disk' = disk \cup {wav_path}
        /\ made' = made \cup {wav_path}
        /\ rc' = IF fallback THEN rc ELSE [rc EXCEPT !.wav = "ok"]
        /\ pc' = next
        /\ UNCHANGED <<e, primary_fault, tmp>>
     \/ /\ rc' = IF fallback THEN rc ELSE [rc EXCEPT !.wav = "fail"]
        /\ IF fallback
             THEN /\ RaiseInFallback(CalledProcessError(cmd_wav(mp4_path, wav_path), "fb_deriv"))
                  /\ UNCHANGED primary_fault
             ELSE Raise(CalledProcessError(cmd_wav(mp4_path, wav_path), "deriv"))
        /\ UNCHANGED made
  /\ UNCHANGED <<variant, url, enable_fallback, cookies_file, rerun_requested,
                 session_state, title, base, shown_success, shown_error,
                 shown_download, run_result, failed_stage, picked, mp4_writer, store0>>

\* The packaging step: the archive is written to memory and stored in the
\* session, and the scratch scope is left.
ZipStep(here, next) ==
  /\ pc = here
  /\ ~rerun_requested
  /\ calls' = [calls EXCEPT !.zip = @ + 1]
  /\ session_state' = StoreZip(session_state, <<mp4_path, mp3_path, wav_path>>, base)
  /\ disk' = Cleanup(disk, tmp)
  /\ tmp' = NoTmp
  /\ pc' = next
  /\ UNCHANGED <<variant, url, enable_fallback, cookies_file, rerun_requested,
                 title, base, e, shown_success, shown_error, shown_download,
                 run_result, failed_stage, primary_fault, picked, rc, mp4_writer,
                 made, store0>>

\* st.success after the scratch scope
SuccessStep(here) ==
  /\ pc = here
  /\ ~rerun_requested
  /\ shown_success' = TRUE
  /\ run_result' = "done"
  /\ pc' = "render"
  /\ UNCHANGED <<variant, url, enable_fallback, cookies_file, rerun_requested,
                 session_state, title, base, tmp, disk, e, shown_error,
                 shown_download, failed_stage, primary_fault, picked, calls, rc,
                 mp4_writer, made, store0>>

MakeMp3 == Mp3Step("mp3", "wav", FALSE)
MakeWav == WavStep("wav", "zip", FALSE)
Zip == ZipStep("zip", "success")
Success == SuccessStep("success")

\* st.error of an except clause
ShowError(text, stage) ==
  /\ ~rerun_requested
  /\ shown_error' = text
  /\ run_result' = "failed"
  /\ failed_stage' = stage
  /\ e' = NoExc
  /\ pc' = "render"

\* app.py: except Exception as e
ExceptApp ==
  /\ pc = "except"
  /\ variant = "app"
  /\ IF TakeFallback(enable_fallback, e)
       THEN /\ pc' = "fb_start"
            /\ e' = NoExc
            /\ UNCHANGED <<shown_error, run_result, failed_stage>>
       ELSE ShowError(<<"Erreur: ">> \o e.msg, e.stage)
  /\ UNCHANGED <<variant, url, enable_fallback, cookies_file, rerun_requested,
                 session_state, title, base, tmp, disk, shown_success,
                 shown_download, primary_fault, picked, calls, rc, mp4_writer,
                 made, store0>>

\* pytubefix.py: the three except clauses
ExceptPytubefix ==
  /\ pc = "except"
  /\ variant = "pytubefix"
  /\ ShowError(IF e.type = "VideoUnavailable" THEN MsgUnavailablePytubefix
               ELSE IF e.type = "CalledProcessError" THEN <<"Erreur FFmpeg: ">> \o e.msg
               ELSE <<"Erreur: ">> \o e.msg,
               e.stage)
  /\ UNCHANGED <<variant, url, enable_fallback, cookies_file, rerun_requested,
                 session_state, title, base, tmp, disk, shown_success,
                 shown_download, primary_fault, picked, calls, rc, mp4_writer,
                 made, store0>>

\* The fallback's scratch scope: base is the placeholder, the uploaded
\* cookies are copied into the scope.
FbStart ==
  /\ pc = "fb_start"
  /\ \E t \in TmpNames :
        LET files == IF cookies_file THEN {t, join(t, <<"cookies.txt">>)} ELSE {t}
        IN  /\ tmp' = t
            /\ disk' = disk \cup files
            /\ made' = made \cup files
  /\ base' = sanitize(VIDEO)
  /\ pc' = "fb_ytdlp"
  /\ UNCHANGED <<variant, url, enable_fallback, cookies_file, rerun_requested,
                 session_state, title, e, shown_success, shown_error,
                 shown_download, run_result, failed_stage, primary_fault, picked,
                 calls, rc, mp4_writer, store0>>

\* ytdlp_download_mp4: a non-zero exit status or a missing output file raises
FbYtdlp ==
  /\ pc = "fb_ytdlp"
  /\ ~rerun_requested
  /\ calls' = [calls EXCEPT !.ytdlp = @ + 1]
  /\ \/ /\ rc' = [rc EXCEPT !.ytdlp = "ok"]
        /\ disk' = disk \cup {mp4_path}
        /\ made' = made \cup {mp4_path}
        /\ pc' = "fb_mp3"
        /\ UNCHANGED <<e, tmp>>
     \/ /\ rc' = [rc EXCEPT !.ytdlp = "fail"]
        /\ RaiseInFallback(Exc("RuntimeError", 0, <<"yt-dlp a echoue:">>, "ytdlp"))
        /\ UNCHANGED made
     \/ /\ rc' = [rc EXCEPT !.ytdlp = "nofile"]
        /\ RaiseInFallback(Exc("FileNotFoundError", 0, <<"MP4 non trouve apres yt-dlp">>, "ytdlp"))
        /\ UNCHANGED made
  /\ UNCHANGED <<variant, url, enable_fallback, cookies_file, rerun_requested,
                 session_state, title, base, shown_success, shown_error,
                 shown_download, run_result, failed_stage, primary_fault, picked,
                 mp4_writer, store0>>

FbMakeMp3 == Mp3Step("fb_mp3", "fb_wav", TRUE)
FbMakeWav == WavStep("fb_wav", "fb_zip", TRUE)
FbZip == ZipStep("fb_zip", "fb_success")
FbSuccess == SuccessStep("fb_success")

\* app.py: except Exception as e2
FbExcept ==
  /\ pc = "fb_except"
  /\ ShowError(<<"Echec du fallback yt-dlp: ">> \o e.msg, e.stage)
  /\ UNCHANGED <<variant, url, enable_fallback, cookies_file, rerun_requested,
                 session_state, title, base, tmp, disk, shown_success,
                 shown_download, primary_fault, picked, calls, rc, mp4_writer,
                 made, store0>>

\* The download button below the handler
Render ==
  /\ pc = "render"
  /\ ~rerun_requested
  /\ shown_download' = HasZip(session_state)
  /\ pc' = "idle"
  /\ UNCHANGED <<variant, url, enable_fallback, cookies_file, rerun_requested,
                 session_state, title, base, tmp, disk, e, shown_success,
                 shown_error, run_result, failed_stage, primary_fault, picked,
                 calls, rc, mp4_writer, made, store0>>

\* the positions whose next step starts with a call of st.*
AtStCall ==
  \/ pc \in {"analyse", "streams", "merge", "mp3", "wav", "zip", "success",
             "fb_ytdlp", "fb_mp3", "fb_wav", "fb_zip", "fb_success",
             "fb_except", "render"}
  \/ pc = "except" /\ ~(variant = "app" /\ TakeFallback(enable_fallback, e))

\* The click made during the run takes effect at the next call of st.*: the
\* run is abandoned there (its scratch scope is left) and the script runs
\* again with the submit button pressed and the widgets as they are.
Interrupt ==
  /\ rerun_requested
  /\ AtStCall
  /\ \E ff \in BOOLEAN : StartRun(url, enable_fallback, cookies_file, ff)
  /\ disk' = Cleanup(disk, tmp)
  /\ UNCHANGED <<variant, session_state>>

\* the steps of a session in which the user waits for each run to end
Step ==
  \/ Submit
  \/ Rerun
  \/ Analyse
  \/ Streams
  \/ DownloadV
  \/ DownloadA
  \/ MergeCopy
  \/ MergeX264
  \/ MakeMp3
  \/ MakeWav
  \/ Zip
  \/ Success
  \/ ExceptApp
  \/ ExceptPytubefix
  \/ FbStart
  \/ FbYtdlp
  \/ FbMakeMp3
  \/ FbMakeWav
  \/ FbZip
  \/ FbSuccess
  \/ FbExcept
  \/ Render

Next ==
  \/ Step
  \/ ClickDuringRun
  \/ Interrupt

Spec == Init /\ [][Next]_vars

\* the same session without clicks during a run
SpecSequential == Init /\ [][Step]_vars

-----------------------------------------------------------------------------
(* sanitize on its own: every name up to MaxNameLen characters *)

MaxNameLen == 2

SanAlphabet == {"a", "4", " ", "TAB", "/", ".", "U+00E9"}

SanNames ==
  {None} \cup UNION {[1..n -> SanAlphabet] : n \in 0..MaxNameLen}

SanInit ==
  /\ variant \in Variants
  /\ pc = "san_in"
  /\ title \in SanNames
  /\ NewSession

\* base = sanitize(...)
SanApply ==
  /\ pc = "san_in"
  /\ base' = sanitize(title)
  /\ pc' = "san_out"
  /\ UNCHANGED <<variant, url, enable_fallback, cookies_file, rerun_requested,
                 session_state, title, tmp, disk, e, shown_success, shown_error,
                 shown_download, run_result, failed_stage, primary_fault, picked,
                 calls, rc, mp4_writer, made, store0>>

SanNext == SanApply

SpecSanitize == SanInit /\ [][SanNext]_vars

-----------------------------------------------------------------------------
(* Properties *)

\* a job has completed: its success or its error has been shown
Completed == run_result \in {"done", "failed"}

\* C1: at most one result bundle and one error message are live, and a
\* submission clears the stored bundle and the previous error before the
\* pipeline runs: until the running job stores its own bundle the store is
\* empty and no error is shown, and after a failed job (in particular after
\* "job 1 succeeds, job 2 fails") the store holds no bundle.
C1_SubmitClears ==
  /\ DOMAIN session_state \subseteq {"zip_bytes", "zip_name"}
  /\ (run_result = "running" /\ calls.zip = 0)
        => (~HasZip(session_state) /\ shown_error = <<>>)
  /\ run_result = "failed" => ~HasZip(session_state)

\* C2: the fallback tool is only reached when the fallback mode is enabled
\* and the primary path failed with HTTP 403; no other primary failure
\* reaches it, whatever the title, the URL or the scratch path.
C2_FallbackOnlyOn403 ==
  (calls.ytdlp > 0 \/ pc \in {"fb_start", "fb_ytdlp"})
     => (enable_fallback /\ primary_fault = "http403")

\* C3: in merge_to_mp4 the copy mux runs first and once, the re-encode mux
\* runs (once) exactly when the copy mux failed, the output of a successful
\* copy is the one the copy wrote, and the job fails with a mux failure
\* exactly when both invocations failed.
C3_MergeDecidesJob ==
  /\ calls.copy <= 1 /\ calls.x264 <= 1
  /\ calls.x264 = 1 => (calls.copy = 1 /\ rc.copy = "fail")
  /\ (rc.copy = "fail" /\ pc # "merge_x264") => calls.x264 = 1
  /\ rc.copy = "ok" => mp4_writer = "copy"
  /\ Completed =>
       ((run_result = "failed" /\ failed_stage = "mux")
          <=> (rc.copy = "fail" /\ rc.x264 = "fail"))

\* C4: once a job has completed, on whatever path, nothing the job created
\* in scratch storage is on disk, and no scratch scope is open.
C4_ScratchRemoved ==
  Completed => (made \cap disk = {} /\ disk = {} /\ tmp = NoTmp)

\* a job failed after its directory, both streams, the assembled container
\* and more were written to scratch storage, and the disk is clean
C4_Witness ==
  /\ pc = "idle"
  /\ run_result = "failed"
  /\ Cardinality(made) >= 5
  /\ disk = {}

\* C5: a click made while a job is running is ignored: no step of a running
\* job takes up a click by starting a pipeline execution.
C5_ResubmitIgnored ==
  [][(run_result = "running" /\ rerun_requested)
        => ~(pc' = "analyse" /\ ~rerun_requested')]_vars

\* C6: every character of sanitize(name) is an ASCII letter or digit or one
\* of space . _ - ( ), and an absent, empty or blank name gives "video".
C6_SanitizeCharset ==
  pc = "san_out" =>
    /\ \A i \in 1..Len(base) : base[i] \in AsciiAlnum \cup SafePunct
    /\ (title = None \/ strip(title) = <<>>) => base = VIDEO

\* C7: after a job has completed the page shows either the success message
\* with the download button, or an error message and no download button.
C7_OneOutcome ==
  (pc = "idle" /\ Completed) =>
     \/ shown_success /\ shown_download /\ shown_error = <<>>
     \/ ~shown_success /\ ~shown_download /\ shown_error # <<>>

\* the primary path went through without a failure and with the copy mux
PrimaryAllOk ==
  /\ rc.title = "ok"
  /\ picked = <<TRUE, TRUE>>
  /\ rc.dl_v = "ok" /\ rc.dl_a = "ok"
  /\ rc.copy = "ok"
  /\ rc.mp3 = "ok" /\ rc.wav = "ok"

\* C8: when every step of the primary path succeeds with the copy mux, the
\* job ends with an archive named <sanitized title>.zip holding exactly the
\* entries <sanitized title>.mp4, .mp3 and .wav (base names), no error
\* message, and neither the re-encode mux nor the fallback tool was run.
C8_SuccessBundle ==
  (Completed /\ PrimaryAllOk) =>
     /\ run_result = "done"
     /\ HasZip(session_state)
     /\ session_state["zip_name"] = sanitize(title) \o <<".zip">>
     /\ session_state["zip_bytes"] = << sanitize(title) \o <<".mp4">>,
                                        sanitize(title) \o <<".mp3">>,
                                        sanitize(title) \o <<".wav">> >>
     /\ shown_error = <<>>
     /\ calls.x264 = 0
     /\ calls.ytdlp = 0

\* a job on a title that sanitize changes went through and is on the page
C8_Witness ==
  /\ pc = "idle"
  /\ run_result = "done"
  /\ PrimaryAllOk
  /\ title = <<"a", "/">>
  /\ shown_download

\* C9: HTTP 403 from the primary retrieval with the fallback mode off and an
\* empty store at submission: the job ends with an error message carrying
\* the 403, the store is still empty, and neither the fallback tool nor a
\* derivative or packaging step ran.
C9_Denied403NoFallback ==
  (Completed /\ primary_fault = "http403" /\ ~enable_fallback /\ store0 = EmptyStore) =>
     /\ run_result = "failed"
     /\ Contains403(shown_error)
     /\ session_state = EmptyStore
     /\ calls.ytdlp = 0
     /\ calls.mp3 = 0 /\ calls.wav = 0 /\ calls.zip = 0

\* app.py, fallback box unticked, a download answered with HTTP 403
C9_Witness ==
  /\ pc = "idle"
  /\ variant = "app"
  /\ run_result = "failed"
  /\ primary_fault = "http403"
  /\ ~enable_fallback
  /\ store0 = EmptyStore
  /\ calls.dl > 0

\* C10: when a video-only or an audio-only stream is missing the job fails
\* with the "no suitable stream" error; nothing is downloaded, muxed,
\* derived or packaged, the selector ran once, the fallback tool is not run
\* even with the fallback mode on, and the store is as it was.
C10_NoStreamFatal ==
  (Completed /\ Len(picked) = 2 /\ (~picked[1] \/ ~picked[2])) =>
     /\ run_result = "failed"
     /\ failed_stage = "nostream"
     /\ shown_error \in {<<"Erreur: ">> \o MsgNoStreamApp, MsgNoStreamPytubefix}
     /\ calls.pick = 1
     /\ calls.dl = 0 /\ calls.copy = 0 /\ calls.x264 = 0
     /\ calls.mp3 = 0 /\ calls.wav = 0 /\ calls.zip = 0
     /\ calls.ytdlp = 0
     /\ session_state = store0

\* app.py with the fallback box ticked: only the audio stream is missing
C10_Witness ==
  /\ pc = "idle"
  /\ variant = "app"
  /\ enable_fallback
  /\ run_result = "failed"
  /\ picked = <<TRUE, FALSE>>

====
